---- MODULE Spec2Model ----
(***************************************************************************)
(* A model of the quiz engine of src/engine.py and of the quiz page of     *)
(* src/streamlit_app.py that drives it: the question store                 *)
(* (filter_questions), the adaptive selector (AdaptiveSelector), the       *)
(* answer evaluator (evaluate_answer), the progress store (record_event,   *)
(* alone and called by two sessions at once), the reporter                 *)
(* (compute_report), get_subjects, and the loading and saving of the two   *)
(* JSON files when they are missing, unreadable or cannot be written.      *)
(*                                                                         *)
(* Python strings are sequences of one-character strings, so that strip(), *)
(* lower(), isdigit() and int() are computed and not assumed.              *)
(***************************************************************************)
EXTENDS Integers, Sequences, FiniteSets, TLC

VARIABLES
    questions,   \* the loaded question bank (a sequence of question records)
    d,           \* AdaptiveSelector.d
    start,       \* the start_difficulty the selector was constructed with
    prevD,       \* d before the last operation
    runBase,     \* d before the current run of equal-verdict updates
    runLen,      \* length of the current run of equal-verdict updates
    runOk,       \* the verdict of the current run
    nUpd,        \* number of update() calls made so far
    op,          \* the last store/selector operation and its arguments
    ret,         \* what the last pick()/filter_questions() call returned
    q,           \* the question handed to evaluate_answer
    user_input,  \* the submission handed to evaluate_answer
    res,         \* the outcome of evaluate_answer
    doc,         \* the content of PROGRESS_FILE
    prevDoc,     \* the content of PROGRESS_FILE before the last call
    call,        \* the last progress-store call and its arguments
    clock,       \* datetime.now(), in seconds
    result,      \* what the last progress-store call returned, or that it raised
    prevResult,  \* what the call before it returned
    procs,       \* the record_event calls in progress, one per session
    qsrc,        \* QUESTION_FILE
    saved,       \* how the write of the last record_event call went
    current_q,   \* st.session_state.current_q
    q_count,     \* st.session_state.q_count
    score,       \* st.session_state.score
    page,        \* the last button handled by the quiz page, and the answer given
    answered,    \* an answer to current_q has been graded since it was picked
    trace        \* the engine calls made by the last Submit, in order

vars == <<questions, d, start, prevD, runBase, runLen, runOk, nUpd, op, ret,
          q, user_input, res, doc, prevDoc, call, clock, result, prevResult,
          procs, qsrc, saved, current_q, q_count, score, page, answered, trace>>

selVars == <<questions, d, start, prevD, runBase, runLen, runOk, nUpd, op, ret>>
evalVars == <<q, user_input, res>>
progVars ==
    <<doc, prevDoc, call, clock, result, prevResult, procs, qsrc, saved>>
quizVars == <<current_q, q_count, score, page, answered, trace>>

(***************************************************************************)
(* Bounds of the model.                                                    *)
(***************************************************************************)
MaxStart == 6        \* start_difficulty is drawn from 0..MaxStart
MaxUpdates == 6      \* update() calls per behaviour
MaxLen == 3          \* length of a text/mcq submission
MaxInt == 1          \* integer part of a decimal submission
MaxEvents == 2       \* record_event() calls per behaviour
MaxClock == 1        \* seconds the clock may advance

(***************************************************************************)
(* Python str: strip(), lower(), isdigit(), int().                         *)
(***************************************************************************)
DecimalDigits == {"0", "1", "2", "3", "4", "5", "6", "7", "8", "9"}

\* str.isdigit() also accepts characters such as SUPERSCRIPT TWO, which
\* int() rejects.
SuperscriptDigits == {"²"}

IsSpace(c) == c = " "

LowerChar(c) ==
    CASE c = "A" -> "a"
      [] c = "B" -> "b"
      [] c = "C" -> "c"
      [] c = "M" -> "m"
      [] c = "S" -> "s"
      [] OTHER -> c

lower(s) == [i \in 1..Len(s) |-> LowerChar(s[i])]

RECURSIVE lstrip(_)
lstrip(s) == IF s # <<>> /\ IsSpace(Head(s)) THEN lstrip(Tail(s)) ELSE s

RECURSIVE rstrip(_)
rstrip(s) ==
    IF s # <<>> /\ IsSpace(s[Len(s)]) THEN rstrip(SubSeq(s, 1, Len(s) - 1)) ELSE s

strip(s) == rstrip(lstrip(s))

isdigit(s) ==
    /\ s # <<>>
    /\ \A i \in 1..Len(s) : s[i] \in DecimalDigits \cup SuperscriptDigits

\* int(s) raises ValueError unless s is a run of decimal digits (the model
\* hands it no sign and no surrounding blanks).
IntParses(s) == s # <<>> /\ \A i \in 1..Len(s) : s[i] \in DecimalDigits

DigitVal(c) ==
    CASE c = "0" -> 0 [] c = "1" -> 1 [] c = "2" -> 2 [] c = "3" -> 3
      [] c = "4" -> 4 [] c = "5" -> 5 [] c = "6" -> 6 [] c = "7" -> 7
      [] c = "8" -> 8 [] c = "9" -> 9

RECURSIVE IntOf(_)
IntOf(s) ==
    IF s = <<>> THEN 0
    ELSE 10 * IntOf(SubSeq(s, 1, Len(s) - 1)) + DigitVal(s[Len(s)])

Min(a, b) == IF a <= b THEN a ELSE b
Max(a, b) == IF a >= b THEN a ELSE b

(***************************************************************************)
(* JSON values of a question's fields: absent, a number (its literal) or   *)
(* a string.                                                               *)
(***************************************************************************)
Absent == [t |-> "absent", s |-> <<>>]
Str(s) == [t |-> "str", s |-> s]
Num(s) == [t |-> "num", s |-> s]

\* dict.get(key, default)
Get(v, default) == IF v.t = "absent" THEN default ELSE v

Question(id, subject, topic, difficulty, type, answer, options, tolerance, aliases) ==
    [id |-> id, subject |-> subject, topic |-> topic, difficulty |-> difficulty,
     type |-> type, answer |-> answer, options |-> options,
     tolerance |-> tolerance, aliases |-> aliases]

\* The empty dict {} that pick() returns when the pool is empty.
EmptyQ == Question(Absent, Absent, Absent, Absent, Absent, Absent, <<>>, Absent, <<>>)

\* int(q.get("difficulty", 1))
DifficultyOf(qq) == IntOf(Get(qq.difficulty, Num(<<"1">>)).s)

\* q.get("subject", "").lower()
SubjectLower(qq) == lower(Get(qq.subject, Str(<<>>)).s)

(***************************************************************************)
(* Python float: IEEE 754 binary64, round to nearest, ties to even.        *)
(*                                                                         *)
(* A non-negative double below 2^IntBits that is zero or at least          *)
(* 2^(Mantissa - 1 - FracBits) is a whole number of units of 2^-FracBits;  *)
(* it is held as the IntBits + FracBits bits of that number, most          *)
(* significant first.  The numbers of the model (two-decimal literals from *)
(* 0.01, one-digit fractions, and their differences) are all of this kind. *)
(***************************************************************************)
Mantissa == 53
IntBits == 4
FracBits == 59
TotalBits == IntBits + FracBits

RECURSIVE Pow2(_)
Pow2(n) == IF n = 0 THEN 1 ELSE 2 * Pow2(n - 1)

RECURSIVE Pow10(_)
Pow10(n) == IF n = 0 THEN 1 ELSE 10 * Pow10(n - 1)

RECURSIVE DivBits(_, _, _)
\* the first n bits of the binary expansion of r / den, for r < den
DivBits(r, den, n) ==
    IF n = 0 THEN <<>>
    ELSE IF 2 * r >= den THEN <<1>> \o DivBits(2 * r - den, den, n - 1)
    ELSE <<0>> \o DivBits(2 * r, den, n - 1)

RECURSIVE DivRem(_, _, _)
\* the remainder left after those n bits
DivRem(r, den, n) ==
    IF n = 0 THEN r
    ELSE IF 2 * r >= den THEN DivRem(2 * r - den, den, n - 1)
    ELSE DivRem(2 * r, den, n - 1)

RECURSIVE AddOneAt(_, _)
\* bits + one unit of position k, with carry
AddOneAt(bits, k) ==
    IF k = 0 THEN bits
    ELSE IF bits[k] = 0 THEN [bits EXCEPT ![k] = 1]
    ELSE AddOneAt([bits EXCEPT ![k] = 0], k - 1)

\* Round a binary expansion (TotalBits + 1 bits, and whether anything
\* non-zero follows them) to Mantissa significant bits.
RoundToDouble(bits, sticky) ==
    LET ones == {i \in 1..Len(bits) : bits[i] = 1}
    IN  IF ones = {} THEN [i \in 1..TotalBits |-> 0]
        ELSE LET p == CHOOSE i \in ones : \A j \in ones : i <= j
                 k == Min(p + Mantissa - 1, TotalBits)
                 guard == bits[k + 1]
                 rest == sticky \/ \E j \in ones : j > k + 1
                 kept == [i \in 1..TotalBits |-> IF i <= k THEN bits[i] ELSE 0]
             IN  IF guard = 1 /\ (rest \/ bits[k] = 1)
                 THEN AddOneAt(kept, k)
                 ELSE kept

\* The double nearest to num / den.
ToDouble(num, den) ==
    RoundToDouble(DivBits(num, den * Pow2(IntBits), TotalBits + 1),
                  DivRem(num, den * Pow2(IntBits), TotalBits + 1) # 0)

RECURSIVE LeqBits(_, _, _)
\* a <= b, comparing from bit i on
LeqBits(a, b, i) ==
    IF i > Len(a) THEN TRUE
    ELSE IF a[i] < b[i] THEN TRUE
    ELSE IF a[i] > b[i] THEN FALSE
    ELSE LeqBits(a, b, i + 1)

RECURSIVE SubBits(_, _, _, _)
\* the bits 1..i of a - b (a >= b), given the borrow into bit i
SubBits(a, b, i, borrow) ==
    IF i = 0 THEN <<>>
    ELSE IF a[i] - b[i] - borrow < 0
    THEN SubBits(a, b, i - 1, 1) \o <<a[i] - b[i] - borrow + 2>>
    ELSE SubBits(a, b, i - 1, 0) \o <<a[i] - b[i] - borrow>>

\* abs(x - y) of two doubles: the exact difference, rounded.
AbsDiff(x, y) ==
    LET hi == IF LeqBits(y, x, 1) THEN x ELSE y
        lo == IF LeqBits(y, x, 1) THEN y ELSE x
    IN  RoundToDouble(SubBits(hi, lo, TotalBits, 0) \o <<0>>, FALSE)

(***************************************************************************)
(* Parsing numbers: float(str) and sympify(str), on decimal literals       *)
(* (digits, optionally a point and more digits) and on fractions of two    *)
(* digit runs; sympify raises or yields no real number on everything else  *)
(* the model hands it.                                                     *)
(***************************************************************************)
IndexOfChar(s, c) ==
    IF \E i \in 1..Len(s) : s[i] = c
    THEN CHOOSE i \in 1..Len(s) : s[i] = c /\ \A j \in 1..(i - 1) : s[j] # c
    ELSE 0

IsDecimalLiteral(s) ==
    LET dot == IndexOfChar(s, ".")
    IN  IF dot = 0 THEN IntParses(s)
        ELSE /\ IntParses(SubSeq(s, 1, dot - 1))
             /\ IntParses(SubSeq(s, dot + 1, Len(s)))

\* the literal's value as a fraction [num, den]
DecimalValue(s) ==
    LET dot == IndexOfChar(s, ".")
    IN  IF dot = 0 THEN [num |-> IntOf(s), den |-> 1]
        ELSE [num |-> IntOf(SubSeq(s, 1, dot - 1) \o SubSeq(s, dot + 1, Len(s))),
              den |-> Pow10(Len(s) - dot)]

IsFraction(s) ==
    LET bar == IndexOfChar(s, "/")
    IN  /\ bar # 0
        /\ IntParses(SubSeq(s, 1, bar - 1))
        /\ IntParses(SubSeq(s, bar + 1, Len(s)))
        /\ IntOf(SubSeq(s, bar + 1, Len(s))) # 0

FractionValue(s) ==
    LET bar == IndexOfChar(s, "/")
    IN  [num |-> IntOf(SubSeq(s, 1, bar - 1)), den |-> IntOf(SubSeq(s, bar + 1, Len(s)))]

\* float(s): does it return, and what
FloatParses(s) == IsDecimalLiteral(s)
FloatOf(s) == ToDouble(DecimalValue(s).num, DecimalValue(s).den)

\* float(sympify(s)): does it return, and what
SympifyParses(s) == IsDecimalLiteral(s) \/ IsFraction(s)
SympifyFloatOf(s) ==
    IF IsDecimalLiteral(s)
    THEN ToDouble(DecimalValue(s).num, DecimalValue(s).den)
    ELSE ToDouble(FractionValue(s).num, FractionValue(s).den)

RECURSIVE StripZeros(_)
StripZeros(s) ==
    IF Len(s) > 1 /\ s[Len(s)] = "0" THEN StripZeros(SubSeq(s, 1, Len(s) - 1)) ELSE s

\* str(v): a string is itself, a JSON number prints as Python prints the int
\* or the float it was loaded as, None prints as "None".
PyStr(v) ==
    IF v.t = "str" THEN v.s
    ELSE IF v.t = "absent" THEN <<"N", "o", "n", "e">>
    ELSE LET dot == IndexOfChar(v.s, ".")
         IN  IF dot = 0 THEN v.s
             ELSE SubSeq(v.s, 1, dot) \o StripZeros(SubSeq(v.s, dot + 1, Len(v.s)))

(***************************************************************************)
(* Question store: filter_questions.                                       *)
(***************************************************************************)
Abs(n) == IF n < 0 THEN -n ELSE n

RECURSIVE Select(_, _, _)
\* [x for x in seq if keep[i]], keeping the order of seq
Select(seq, keep, i) ==
    IF i > Len(seq) THEN <<>>
    ELSE (IF keep[i] THEN <<seq[i]>> ELSE <<>>) \o Select(seq, keep, i + 1)

\* filter_questions without the widening to the whole subject
filter_questions_nofallback(qs, subject, difficulty) ==
    Select(qs, [i \in 1..Len(qs) |->
                   /\ SubjectLower(qs[i]) = lower(subject)
                   /\ Abs(DifficultyOf(qs[i]) - difficulty) <= 1], 1)

filter_questions(qs, subject, difficulty) ==
    LET pool == Select(qs, [i \in 1..Len(qs) |->
                               /\ SubjectLower(qs[i]) = lower(subject)
                               /\ Abs(DifficultyOf(qs[i]) - difficulty) <= 1], 1)
    IN  IF pool = <<>>
        THEN Select(qs, [i \in 1..Len(qs) |-> SubjectLower(qs[i]) = lower(subject)], 1)
        ELSE pool

(***************************************************************************)
(* Adaptive selector.                                                      *)
(***************************************************************************)
MinDifficulty == 1
MaxDifficulty == 5
DefaultStart == 2

\* clamp without the upper bound
clamp_nohi(n, lo, hi) == Max(lo, n)

clamp(n, lo, hi) == Max(lo, Min(hi, n))

\* update that rewards a correct answer with two levels
update_twostep(dd, was_correct) ==
    clamp(dd + (IF was_correct THEN 2 ELSE -1), MinDifficulty, MaxDifficulty)

\* AdaptiveSelector.update: the new value of self.d
update(dd, was_correct) ==
    clamp(dd + (IF was_correct THEN 1 ELSE -1), MinDifficulty, MaxDifficulty)

\* Store questions differ in subject (and its case), difficulty and id.
SQ(id, subject, difficulty) ==
    Question(Str(<<id>>), subject, Str(<<"t">>), difficulty, Str(<<"m","c","q">>),
             Str(<<"a">>), << <<"a">>, <<"b">> >>, Absent, <<>>)

Banks ==
    { <<>>,
      << SQ("1", Str(<<"M","a">>), Num(<<"1">>)),
         SQ("2", Str(<<"m","a">>), Num(<<"2">>)),
         SQ("3", Str(<<"S","c">>), Num(<<"5">>)),
         SQ("4", Str(<<"M","A">>), Num(<<"5">>)) >>,
      << SQ("1", Str(<<"S","c">>), Absent),
         SQ("2", Str(<<"M","a">>), Str(<<"4">>)),
         SQ("3", Absent, Num(<<"3">>)),
         SQ("4", Str(<<"S","C">>), Num(<<"1">>)) >>,
      << SQ("1", Str(<<"M","a">>), Num(<<"3">>)),
         SQ("2", Str(<<"S","c">>), Num(<<"3">>)),
         SQ("3", Str(<<"M","a">>), Num(<<"3">>)),
         SQ("4", Str(<<"m","A">>), Num(<<"4">>)) >> }

\* Subjects a caller may ask for: present ones in several cases, the empty
\* string and one that no bank holds.
SubjectArgs == { <<"M","a">>, <<"m","a">>, <<"S","C">>, <<>>, <<"B">> }

Op(name, subject, diff, ok) ==
    [name |-> name, subject |-> subject, diff |-> diff, ok |-> ok]

NoRet == <<>>

\* The quiz page's last button: none yet ("init"), "Start / Next Question"
\* ("next") or "Submit" ("submit") with the widget's value (Absent is None).
Page(name, input) == [name |-> name, input |-> input]

QuizIdle ==
    /\ current_q = EmptyQ
    /\ q_count = 0
    /\ score = 0
    /\ page = Page("init", Absent)
    /\ answered = FALSE
    /\ trace = <<>>

EvalIdle ==
    /\ q = EmptyQ
    /\ user_input = <<>>
    /\ res = [done |-> FALSE, raised |-> FALSE, ok |-> FALSE, disp |-> Absent]

\* PROGRESS_FILE: missing, not JSON, or the document save_progress wrote,
\* {"users": {name: {"history": [event, ...]}}}
Document(state, users) == [state |-> state, users |-> users]
NoUsers == [u \in {} |-> [history |-> <<>>]]

Call(name, user, subject, qq, correct) ==
    [name |-> name, user |-> user, subject |-> subject, q |-> qq, correct |-> correct]

\* What a progress-store call did: nothing yet ("none"), returned None
\* ("unit"), returned a report ("report") or raised ("raised").
NoReport == [total |-> 0, accuracy |-> 0, topic_stats |-> <<>>, recommendations |-> <<>>]
Outcome(kind, report) == [kind |-> kind, report |-> report]

\* A session's record_event call: not started ("idle"), past load_progress()
\* with the document it read ("loaded"), or past save_progress() ("done").
\* savesSeen is the number of saves made before its load, order its place
\* among the saves.
IdleProc ==
    [pc |-> "idle", user |-> "", q |-> EmptyQ, correct |-> FALSE,
     read |-> Document("missing", NoUsers), ts |-> 0, savesSeen |-> 0, order |-> 0]

Sessions == {1, 2}

\* QUESTION_FILE: its state and, when it is a readable JSON list, the list
QuestionFile(state, qs) == [state |-> state, questions |-> qs]

ConcIdle ==
    /\ result = Outcome("none", NoReport)
    /\ prevResult = Outcome("none", NoReport)
    /\ procs = [p \in Sessions |-> IdleProc]
    /\ qsrc = QuestionFile("missing", <<>>)
    /\ saved = "none"

ProgIdle ==
    /\ doc = Document("missing", NoUsers)
    /\ prevDoc = Document("missing", NoUsers)
    /\ call = Call("init", "", <<>>, EmptyQ, FALSE)
    /\ clock = 0
    /\ ConcIdle

\* AdaptiveSelector.__init__ with any caller-supplied start_difficulty, and
\* the bank load_questions() returned.
Init ==
    /\ questions \in Banks
    /\ start \in 0..MaxStart
    /\ d = start
    /\ prevD = start
    /\ runBase = start
    /\ runLen = 0
    /\ runOk = FALSE
    /\ nUpd = 0
    /\ op = Op("init", <<>>, 0, FALSE)
    /\ ret = NoRet
    /\ EvalIdle
    /\ QuizIdle
    /\ ProgIdle

Update(was_correct) ==
    /\ nUpd < MaxUpdates
    /\ d' = update(d, was_correct)
    /\ prevD' = d
    /\ runBase' = IF runLen > 0 /\ runOk = was_correct THEN runBase ELSE d
    /\ runLen' = IF runLen > 0 /\ runOk = was_correct THEN runLen + 1 ELSE 1
    /\ runOk' = was_correct
    /\ nUpd' = nUpd + 1
    /\ op' = Op("update", <<>>, 0, was_correct)
    /\ UNCHANGED <<questions, start, ret>>
    /\ UNCHANGED <<evalVars, progVars, quizVars>>

\* pick that falls back to the whole bank when the pool is empty
Pick_anysubject(subject) ==
    LET pool == filter_questions(questions, subject, d)
        from == IF pool = <<>> THEN questions ELSE pool
    IN  /\ IF from = <<>>
           THEN ret' = EmptyQ
           ELSE \E i \in 1..Len(from) : ret' = from[i]
        /\ prevD' = d
        /\ op' = Op("pick", subject, d, FALSE)
        /\ UNCHANGED <<questions, d, start, runBase, runLen, runOk, nUpd>>
        /\ UNCHANGED <<evalVars, progVars, quizVars>>

\* AdaptiveSelector.pick: random.choice(pool) if pool else {}
Pick(subject) ==
    LET pool == filter_questions(questions, subject, d)
    IN  /\ IF pool = <<>>
           THEN ret' = EmptyQ
           ELSE \E i \in 1..Len(pool) : ret' = pool[i]
        /\ prevD' = d
        /\ op' = Op("pick", subject, d, FALSE)
        /\ UNCHANGED <<questions, d, start, runBase, runLen, runOk, nUpd>>
        /\ UNCHANGED <<evalVars, progVars, quizVars>>

Next ==
    \/ \E was_correct \in BOOLEAN : Update(was_correct)
    \/ \E subject \in SubjectArgs : Pick(subject)

Spec == Init /\ [][Next]_vars

(***************************************************************************)
(* Properties of the selector and the question store.                      *)
(***************************************************************************)
\* Two strings are equal when compared case-insensitively.
SameIgnoringCase(a, b) ==
    /\ Len(a) = Len(b)
    /\ \A i \in 1..Len(a) : LowerChar(a[i]) = LowerChar(b[i])

\* The question's subject is S, case aside (a question without a subject
\* counts as one whose subject is the empty string).
HasSubject(qq, S) ==
    SameIgnoringCase(IF qq.subject.t = "absent" THEN <<>> ELSE qq.subject.s, S)

SubjectIdx(S) == {i \in 1..Len(questions) : HasSubject(questions[i], S)}

NearIdx(S, D) ==
    {i \in SubjectIdx(S) :
        /\ DifficultyOf(questions[i]) >= D - 1
        /\ DifficultyOf(questions[i]) <= D + 1}

\* seq lists exactly the questions at the indices I, in the bank's order.
ListsExactly(seq, I) ==
    /\ Len(seq) = Cardinality(I)
    /\ \E f \in [1..Len(seq) -> I] :
          /\ \A k \in 1..Len(seq) : seq[k] = questions[f[k]]
          /\ \A k, l \in 1..Len(seq) : k < l => f[k] < f[l]

\* C1: a selector started at a difficulty within [1,5] still has a difficulty
\* within [1,5] after any finite sequence of update(true)/update(false) calls.
C1_UpdateKeepsRange == start \in 1..5 => d \in 1..5

\* Started at 5, two or more correct updates in a row have left d at 5.
C1_Witness == start = 5 /\ runBase = 5 /\ runOk /\ runLen >= 2 /\ d = 5

\* C2: update(was_correct) maps a difficulty d0 within [1,5] to min(5, d0+1)
\* when correct and to max(1, d0-1) when not; so a run of k equal verdicts
\* from d0 ends at min(5, d0+k), respectively max(1, d0-k).
C2_UpdateIsBoundedStep ==
    /\ (op.name = "update" /\ prevD \in 1..5) =>
          d = (IF op.ok THEN Min(5, prevD + 1) ELSE Max(1, prevD - 1))
    /\ (runLen > 0 /\ runBase \in 1..5) =>
          d = (IF runOk THEN Min(5, runBase + runLen) ELSE Max(1, runBase - runLen))

\* A run of three correct updates from 3 was capped at 5.
C2_Witness == op.name = "update" /\ runBase = 3 /\ runOk /\ runLen = 3 /\ d = 5

\* C4: pick(questions, subject) returns a member of filter(questions, subject,
\* current difficulty) when that pool is non-empty, returns the empty
\* sentinel exactly when no question matches the subject, and leaves the
\* difficulty as it was.
C4_PickFromPool ==
    op.name = "pick" =>
        LET pool == filter_questions(questions, op.subject, prevD)
        IN  /\ pool # <<>> => \E i \in 1..Len(pool) : ret = pool[i]
            /\ ret = EmptyQ <=> SubjectIdx(op.subject) = {}
            /\ d = prevD

\* pick() returned the sentinel from a bank that holds questions.
C4_Witness == op.name = "pick" /\ ret = EmptyQ /\ questions # <<>>

(***************************************************************************)
(* filter_questions as a function of its arguments: the arguments are      *)
(* drawn by InitFilter and Filter applies the function to them.            *)
(***************************************************************************)
SelIdle ==
    /\ d = DefaultStart
    /\ start = DefaultStart
    /\ prevD = DefaultStart
    /\ runBase = DefaultStart
    /\ runLen = 0
    /\ runOk = FALSE
    /\ nUpd = 0

InitFilter ==
    /\ questions \in Banks
    /\ \E subject \in SubjectArgs, difficulty \in 0..MaxStart :
           op = Op("args", subject, difficulty, FALSE)
    /\ ret = NoRet
    /\ SelIdle
    /\ EvalIdle
    /\ QuizIdle
    /\ ProgIdle

Filter ==
    /\ op.name = "args"
    /\ ret' = filter_questions(questions, op.subject, op.diff)
    /\ op' = [op EXCEPT !.name = "filter"]
    /\ UNCHANGED <<questions, d, start, prevD, runBase, runLen, runOk, nUpd>>
    /\ UNCHANGED <<evalVars, progVars, quizVars>>

\* ord(c) for the letters of the subjects
ord(c) ==
    CASE c = "A" -> 65
      [] c = "B" -> 66
      [] c = "C" -> 67
      [] c = "M" -> 77
      [] c = "S" -> 83
      [] c = "a" -> 97
      [] c = "c" -> 99
      [] c = "m" -> 109

\* a < b for str: the first differing character decides, a proper prefix is
\* smaller
RECURSIVE StrLess(_, _)
StrLess(a, b) ==
    IF b = <<>> THEN FALSE
    ELSE IF a = <<>> THEN TRUE
    ELSE IF Head(a) # Head(b) THEN ord(Head(a)) < ord(Head(b))
    ELSE StrLess(Tail(a), Tail(b))

\* sorted(list(set_of_str))
RECURSIVE Sorted(_)
Sorted(strs) ==
    IF strs = {} THEN <<>>
    ELSE LET least == CHOOSE x \in strs : \A y \in strs \ {x} : StrLess(x, y)
         IN  <<least>> \o Sorted(strs \ {least})

\* [q["subject"] for q in questions if "subject" in q]: no set, no sort
get_subjects_aslisted(qs) ==
    LET keep == [i \in 1..Len(qs) |-> qs[i].subject.t # "absent"]
        with == Select(qs, keep, 1)
    IN  [k \in 1..Len(with) |-> with[k].subject.s]

\* sorted(list({q["subject"] for q in questions if "subject" in q}))
get_subjects(qs) ==
    Sorted({qs[i].subject.s : i \in {j \in 1..Len(qs) : qs[j].subject.t # "absent"}})

Subjects ==
    /\ op.name = "args"
    /\ ret' = get_subjects(questions)
    /\ op' = [op EXCEPT !.name = "subjects"]
    /\ UNCHANGED <<questions, d, start, prevD, runBase, runLen, runOk, nUpd>>
    /\ UNCHANGED <<evalVars, progVars, quizVars>>

NextFilter == Filter \/ Subjects

SpecFilter == InitFilter /\ [][NextFilter]_vars

\* C3: filter(questions, S, D) returns exactly the questions of subject S
\* (case aside) whose difficulty (1 when absent) is within 1 of D when there
\* is one, and otherwise all questions of subject S; so it is non-empty
\* whenever a question has subject S and holds no other subject's question.
C3_FilterWithFallback ==
    op.name = "filter" =>
        /\ ListsExactly(ret, IF NearIdx(op.subject, op.diff) # {}
                             THEN NearIdx(op.subject, op.diff)
                             ELSE SubjectIdx(op.subject))
        /\ SubjectIdx(op.subject) # {} => ret # <<>>
        /\ \A k \in 1..Len(ret) : HasSubject(ret[k], op.subject)

\* The fallback was taken: no question of the subject is near D, and the
\* result holds a question whose subject is spelt in another case.
C3_Witness ==
    /\ op.name = "filter"
    /\ NearIdx(op.subject, op.diff) = {}
    /\ \E k \in 1..Len(ret) : ret[k].subject.s # op.subject

(***************************************************************************)
(* Answer evaluator: evaluate_answer.                                      *)
(***************************************************************************)
TypeMcq == <<"m", "c", "q">>
TypeNumeric == <<"n", "u", "m", "e", "r", "i", "c">>
TypeText == <<"t", "e", "x", "t">>

\* What a call of evaluate_answer did: returned (ok, disp), or raised.
Returned(ok, disp) == [done |-> TRUE, raised |-> FALSE, ok |-> ok, disp |-> disp]
Raised == [done |-> TRUE, raised |-> TRUE, ok |-> FALSE, disp |-> Absent]
NotCalled == [done |-> FALSE, raised |-> FALSE, ok |-> FALSE, disp |-> Absent]

evaluate_mcq(qq, input) ==
    LET ans == lower(strip(PyStr(Get(qq.answer, Str(<<>>)))))
        ui == lower(strip(input))
        options == qq.options
    IN  IF isdigit(ui) /\ options # <<>>
        THEN IF ~IntParses(ui) THEN Raised        \* int(ui): ValueError
             ELSE IF 0 <= IntOf(ui) - 1 /\ IntOf(ui) - 1 < Len(options)
             THEN Returned(lower(strip(options[IntOf(ui)])) = ans, Str(ans))
             ELSE Returned(ui = ans, Str(ans))
        ELSE Returned(ui = ans, Str(ans))

evaluate_numeric(qq, input) ==
    LET answer == qq.answer
        direct == answer.t = "num" \/ (answer.t = "str" /\ FloatParses(answer.s))
        tolv == Get(qq.tolerance, Num(<<"0", ".", "0", "1">>))
    IN  IF ~direct /\ ~SympifyParses(PyStr(answer)) THEN Raised
        ELSE IF tolv.t = "str" /\ ~FloatParses(tolv.s) THEN Raised
        ELSE IF ~SympifyParses(input) /\ ~FloatParses(input)
        THEN Returned(FALSE, Str(PyStr(answer)))
        ELSE LET target == IF direct THEN FloatOf(answer.s)
                           ELSE SympifyFloatOf(PyStr(answer))
                 tol == FloatOf(tolv.s)
                 ui_val == IF SympifyParses(input) THEN SympifyFloatOf(input)
                           ELSE FloatOf(input)
             IN  Returned(LeqBits(AbsDiff(ui_val, target), tol, 1), Str(PyStr(answer)))

\* the text branch without the loop over the aliases
evaluate_text_noalias(qq, input) ==
    Returned(lower(strip(input)) = lower(strip(PyStr(Get(qq.answer, Str(<<>>))))),
             qq.answer)

evaluate_text(qq, input) ==
    LET ui == lower(strip(input))
        ans == lower(strip(PyStr(Get(qq.answer, Str(<<>>)))))
    IN  IF ui = ans THEN Returned(TRUE, qq.answer)
        ELSE IF \E i \in 1..Len(qq.aliases) : ui = lower(strip(qq.aliases[i]))
        THEN Returned(TRUE, qq.answer)
        ELSE Returned(FALSE, qq.answer)

evaluate_answer(qq, input) ==
    LET t == Get(qq.type, Str(TypeMcq)).s
    IN  IF t = TypeMcq THEN evaluate_mcq(qq, input)
        ELSE IF t = TypeNumeric THEN evaluate_numeric(qq, input)
        ELSE evaluate_text(qq, input)

(***************************************************************************)
(* The questions and submissions evaluate_answer is applied to.            *)
(***************************************************************************)
EQ(type, answer, options, tolerance, aliases) ==
    Question(Absent, Str(<<"M", "a">>), Absent, Absent, type, answer, options,
             tolerance, aliases)

McqQuestions ==
    { EQ(Str(TypeMcq), Str(<<"b">>), << <<"a">>, <<"b">>, <<"a", "b">> >>, Absent, <<>>),
      EQ(Str(TypeMcq), Str(<<"1">>), << <<"2">>, <<"1">> >>, Absent, <<>>),
      EQ(Str(TypeMcq), Str(<<" ", "A">>), << <<" ", "A">>, <<"b">> >>, Absent, <<>>),
      EQ(Str(TypeMcq), Str(<<"1">>), <<>>, Absent, <<>>),
      EQ(Str(TypeMcq), Absent, << <<"a">> >>, Absent, <<>>),
      EQ(Absent, Str(<<"A", "b">>), << <<"a", "b">>, <<"A", "b">> >>, Absent, <<>>) }

TextQuestions ==
    { EQ(Str(TypeText), Str(<<"a", "b">>), <<>>, Absent, << <<"a", " ", "b">>, <<" ", "B", " ">> >>),
      EQ(Str(TypeText), Str(<<" ", "A", "b">>), <<>>, Absent, <<>>),
      EQ(Str(TypeText), Absent, <<>>, Absent, << <<"a">> >>),
      EQ(Str(<<"x">>), Str(<<"2">>), << <<"a">>, <<"2">> >>, Absent, <<>>) }

NumericQuestions ==
    { EQ(Str(TypeNumeric), Str(<<"0", ".", "5">>), <<>>, Num(<<"0", ".", "0", "1">>), <<>>),
      EQ(Str(TypeNumeric), Str(<<"1", "/", "2">>), <<>>, Absent, <<>>),
      EQ(Str(TypeNumeric), Num(<<"1">>), <<>>, Num(<<"0", ".", "1">>), <<>>),
      EQ(Str(TypeNumeric), Num(<<"0", ".", "5", "0">>), <<>>, Num(<<"0">>), <<>>),
      EQ(Str(TypeNumeric), Str(<<"x">>), <<>>, Absent, <<>>) }

TextAlphabet == {"a", "A", "b", " ", "1", "2", "²"}

TextInputs == UNION {[1..n -> TextAlphabet] : n \in 0..MaxLen}

DigitChar(n) == CHOOSE c \in DecimalDigits : DigitVal(c) = n

\* Decimals i.ff, fractions n/m of one-digit numbers, and strings that are
\* no number.
NumericInputs ==
    {<<DigitChar(i), ".", DigitChar(f), DigitChar(g)>> :
        i \in 0..MaxInt, f \in 0..9, g \in 0..9}
    \cup {<<DigitChar(n), "/", DigitChar(m)>> : n \in 0..9, m \in 0..9}
    \cup {<<DigitChar(i)>> : i \in 0..MaxInt}
    \cup {<<>>, <<"x">>, <<"x", "/", "2">>}

IsNumeric(qq) == qq.type = Str(TypeNumeric)

InitEval ==
    /\ q \in McqQuestions \cup TextQuestions \cup NumericQuestions
    /\ user_input \in (IF IsNumeric(q) THEN NumericInputs ELSE TextInputs)
    /\ res = NotCalled
    /\ questions = <<>>
    /\ op = Op("init", <<>>, 0, FALSE)
    /\ ret = NoRet
    /\ SelIdle
    /\ ProgIdle
    /\ QuizIdle

Evaluate ==
    /\ ~res.done
    /\ res' = evaluate_answer(q, user_input)
    /\ UNCHANGED <<q, user_input>>
    /\ UNCHANGED <<selVars, progVars, quizVars>>

NextEval == Evaluate

SpecEval == InitEval /\ [][NextEval]_vars

(***************************************************************************)
(* Properties of the answer evaluator.                                     *)
(***************************************************************************)
IsMcq(qq) == qq.type.t = "absent" \/ qq.type = Str(TypeMcq)
IsText(qq) == ~IsMcq(qq) /\ ~IsNumeric(qq)

\* s without its leading and trailing blanks, in lower case
Normalised(s) ==
    LET inked == {i \in 1..Len(s) : s[i] # " "}
    IN  IF inked = {} THEN <<>>
        ELSE LET first == CHOOSE i \in inked : \A j \in inked : i <= j
                 last == CHOOSE i \in inked : \A j \in inked : j <= i
             IN  [i \in 1..(last - first + 1) |-> LowerChar(s[first + i - 1])]

\* The stored answer as text (the empty string when there is none).
AnswerText(qq) == IF qq.answer.t = "absent" THEN <<>> ELSE qq.answer.s

\* s is written with the digits 0-9 only
IsInteger(s) == s # <<>> /\ \A i \in 1..Len(s) : s[i] \in DecimalDigits

\* The text a submission to an mcq question stands for.
ResolvedText(qq, input) ==
    LET t == Normalised(input)
    IN  IF IsInteger(t) /\ 1 <= IntOf(t) /\ IntOf(t) <= Len(qq.options)
        THEN Normalised(qq.options[IntOf(t)])
        ELSE t

\* The value of a decimal literal or of a fraction, as [num, den].
IsNumber(s) == IsDecimalLiteral(s) \/ IsFraction(s)
ValueOf(s) == IF IsDecimalLiteral(s) THEN DecimalValue(s) ELSE FractionValue(s)

\* |a - b| <= t, in exact arithmetic
WithinTolerance(a, b, t) ==
    Abs(a.num * b.den - b.num * a.den) * t.den <= t.num * a.den * b.den

ToleranceOf(qq) ==
    IF qq.tolerance.t = "absent" THEN [num |-> 1, den |-> 100]
    ELSE DecimalValue(qq.tolerance.s)

\* C5: for every question and every submission the evaluator returns a
\* verdict and a display value; it never raises.
C5_EvaluatorNeverRaises == res.done => ~res.raised

\* C6: an mcq submission grades correct exactly when its resolved text (the
\* option at its 1-based index when it is an index in range, itself
\* otherwise; trimmed and lower-cased) equals the trimmed, lower-cased
\* answer, and that answer is the second component returned.
C6_McqGrading ==
    (res.done /\ IsMcq(q)) =>
        /\ ~res.raised
        /\ res.ok <=> (ResolvedText(q, user_input) = Normalised(AnswerText(q)))
        /\ res.disp = Str(Normalised(AnswerText(q)))

\* C7: when the answer of an mcq question is the text of one of its options,
\* submitting that option's text grades correct and submitting that
\* option's 1-based index grades correct, whatever the option texts are.
C7_TextAndIndexAccepted ==
    (res.done /\ IsMcq(q)) =>
        \A k \in 1..Len(q.options) :
            (/\ q.answer = Str(q.options[k])
             /\ (user_input = q.options[k] \/ user_input = <<DigitChar(k)>>))
            => (~res.raised /\ res.ok)

\* C8: for a numeric question whose answer parses to a number, a submission
\* that parses to a number v grades correct exactly when |v - target| is at
\* most the tolerance (0.01 when none is given), the boundary included; one
\* that does not parse grades incorrect; the answer is returned as a string.
C8_NumericTolerance ==
    (res.done /\ IsNumeric(q) /\ IsNumber(AnswerText(q))) =>
        /\ ~res.raised
        /\ res.disp.t = "str"
        /\ IF IsNumber(user_input)
           THEN res.ok <=> WithinTolerance(ValueOf(user_input), ValueOf(AnswerText(q)),
                                           ToleranceOf(q))
           ELSE ~res.ok

\* C9: a text submission grades correct exactly when, trimmed and
\* lower-cased, it equals the trimmed, lower-cased answer or alias; a
\* substring, superstring or near-match grades incorrect.
C9_TextExactMatch ==
    (res.done /\ IsText(q)) =>
        /\ ~res.raised
        /\ res.ok <=>
              \/ Normalised(user_input) = Normalised(AnswerText(q))
              \/ \E i \in 1..Len(q.aliases) :
                    Normalised(user_input) = Normalised(q.aliases[i])

\* A submission that is a proper, non-empty prefix of an alias (and so a
\* substring of it) was graded incorrect.
C9_Witness ==
    /\ res.done /\ IsText(q) /\ ~res.ok
    /\ \E i \in 1..Len(q.aliases) :
          /\ Normalised(user_input) # <<>>
          /\ Len(Normalised(user_input)) < Len(q.aliases[i])
          /\ Normalised(user_input) = SubSeq(q.aliases[i], 1, Len(Normalised(user_input)))

(***************************************************************************)
(* Progress store: load_progress, save_progress, record_event.             *)
(***************************************************************************)
Users == {"ann", "bob"}

\* Questions whose events are recorded: every field given, none given (the
\* {} of an empty pick), and a difficulty stored as a string.
ProgQuestions ==
    { Question(Str(<<"7">>), Str(<<"M", "a">>), Str(<<"a">>), Num(<<"3">>),
               Str(TypeMcq), Str(<<"a">>), << <<"a">> >>, Absent, <<>>),
      EmptyQ,
      Question(Absent, Str(<<"M", "a">>), Str(<<"b">>), Str(<<"4">>),
               Str(TypeText), Str(<<"a">>), <<>>, Absent, <<>>) }

\* A file is a readable JSON document of the expected shape ("ok"), absent
\* ("missing"), text that is not JSON ("corrupt"), bytes that are not UTF-8
\* text ("undecodable"), or JSON that is not an object ("notobject").
FileStates == {"ok", "missing", "corrupt", "undecodable"}
DocStates == FileStates \cup {"notobject"}

\* _load_json catches FileNotFoundError and json.JSONDecodeError only: the
\* UnicodeDecodeError of json.load(f) on an undecodable file propagates
LoadRaises(file) == file.state = "undecodable"

\* progress.setdefault / progress.get on a document that is not a dict
\* raises AttributeError (lines 82, 96)
ProgressRaises(file) == LoadRaises(file) \/ file.state = "notobject"

\* _load_json(PROGRESS_FILE, {"users": {}})
load_progress(file) == IF file.state = "ok" THEN file.users ELSE NoUsers

\* How a write may go: the document is written ("written"), open(path, "w")
\* fails and the file stays as it was ("refused"), or json.dump fails after
\* open() has truncated the file ("cut").
WriteOutcomes == {"written", "refused", "cut"}

\* a save that reports success whatever happened
save_json_swallowed(file, data, write) ==
    CASE write = "written" -> [file |-> data, kind |-> "unit"]
      [] write = "refused" -> [file |-> file, kind |-> "unit"]
      [] write = "cut" -> [file |-> Document("corrupt", NoUsers), kind |-> "unit"]

\* _save_json: no exception is caught, so a failed write raises
save_json(file, data, write) ==
    CASE write = "written" -> [file |-> data, kind |-> "unit"]
      [] write = "refused" -> [file |-> file, kind |-> "raised"]
      [] write = "cut" -> [file |-> Document("corrupt", NoUsers), kind |-> "raised"]

\* dict.setdefault(key, default), for a dict held as a function
SetDefault(f, key, default) ==
    IF key \in DOMAIN f THEN f
    ELSE [k \in DOMAIN f \cup {key} |-> IF k = key THEN default ELSE f[k]]

AttemptEvent(now, subject, qq, correct) ==
    [ts |-> now,
     subject |-> subject,
     topic |-> Get(qq.topic, Str(<<>>)),
     difficulty |-> DifficultyOf(qq),
     correct |-> correct,
     qid |-> qq.id]

\* record_event that replaces the user's history by the new event
record_event_overwrite(file, now, user, subject, qq, correct) ==
    LET users == load_progress(file)
    IN  Document("ok", [k \in DOMAIN users \cup {user} |->
                           IF k = user
                           THEN [history |-> <<AttemptEvent(now, subject, qq, correct)>>]
                           ELSE users[k]])

\* record_event that appends the event to every user's history
record_event_everyuser(file, now, user, subject, qq, correct) ==
    LET users == SetDefault(load_progress(file), user, [history |-> <<>>])
    IN  Document("ok", [u \in DOMAIN users |->
            [history |-> Append(users[u].history,
                                AttemptEvent(now, subject, qq, correct))]])

\* record_event: the document it leaves in PROGRESS_FILE
record_event(file, now, user, subject, qq, correct) ==
    LET users == SetDefault(load_progress(file), user, [history |-> <<>>])
    IN  Document("ok", [users EXCEPT ![user].history =
                           Append(@, AttemptEvent(now, subject, qq, correct))])

RECURSIVE TotalEvents(_, _)
TotalEvents(users, names) ==
    IF names = {} THEN 0
    ELSE LET n == CHOOSE n \in names : TRUE
         IN  Len(users[n].history) + TotalEvents(users, names \ {n})

(***************************************************************************)
(* compute_report: the figures of one user's history.  Percentages are     *)
(* kept in tenths (accuracy 333 is 33.3).  round(x, 1) is computed as the  *)
(* nearest tenth of the exact quotient, ties to even: for totals below 80  *)
(* the double quotient and the exact one round to the same tenth.          *)
(***************************************************************************)
MaxHist == 4         \* events in the history a report is computed from

\* sum(1 for h in hist if h.get("correct"))
NumCorrect(hist) == Cardinality({i \in 1..Len(hist) : hist[i].correct})

\* round(n / den, 1), in tenths
RoundTenths(n, den) ==
    LET quo == (10 * n) \div den
        rem == (10 * n) % den
    IN  IF 2 * rem > den \/ (2 * rem = den /\ quo % 2 = 1) THEN quo + 1 ELSE quo

\* the same, truncated instead of rounded
Accuracy_truncated(correct, total) ==
    IF total # 0 THEN (1000 * correct) \div total ELSE 0

\* (correct/total*100) if total else 0.0, rounded at line 118
Accuracy(correct, total) ==
    IF total # 0 THEN RoundTenths(100 * correct, total) ELSE 0

\* the keys of per_topic without the "if t not in per_topic" test
RECURSIVE TopicKeys_repeated(_, _)
TopicKeys_repeated(hist, i) ==
    IF i = 0 THEN <<>>
    ELSE Append(TopicKeys_repeated(hist, i - 1), hist[i].topic)

\* the keys of per_topic after the first i events, in insertion order
RECURSIVE TopicKeys(_, _)
TopicKeys(hist, i) ==
    IF i = 0 THEN <<>>
    ELSE LET keys == TopicKeys(hist, i - 1)
         IN  IF \E k \in 1..Len(keys) : keys[k] = hist[i].topic
             THEN keys
             ELSE Append(keys, hist[i].topic)

\* per_topic[t] turned into its topic_stats entry (lines 109-111)
TopicStat(hist, t) ==
    LET of == {i \in 1..Len(hist) : hist[i].topic = t}
        ok == {i \in of : hist[i].correct}
    IN  [topic |-> t,
         attempts |-> Cardinality(of),
         accuracy |-> RoundTenths(100 * Cardinality(ok), Cardinality(of))]

\* list.sort(key=accuracy) is stable: x goes after the entries that are not
\* greater
InsertByAccuracy(sorted, x) ==
    LET k == Cardinality({i \in 1..Len(sorted) : sorted[i].accuracy <= x.accuracy})
    IN  SubSeq(sorted, 1, k) \o <<x>> \o SubSeq(sorted, k + 1, Len(sorted))

\* topic_stats left in the order of per_topic
SortByAccuracy_unsorted(stats, i) == SubSeq(stats, 1, i)

\* topic_stats.sort(key=lambda x: x["accuracy"]), over the first i entries
RECURSIVE SortByAccuracy(_, _)
SortByAccuracy(stats, i) ==
    IF i = 0 THEN <<>>
    ELSE InsertByAccuracy(SortByAccuracy(stats, i - 1), stats[i])

\* "not w" for a topic label
Falsy(w) ==
    \/ w.t = "absent"
    \/ w.t = "str" /\ w.s = <<>>
    \/ w.t = "num" /\ w.s = <<"0">>

\* the characters U+00E2 U+20AC U+201C that stand between "1" and "2" in
\* the template
RangeMark == "U+00E2 U+20AC U+201C"

\* the f-string of line 117
Suggestion(w) ==
    <<"Revise basics of ">> \o PyStr(w)
        \o <<", practice 10 problems at difficulty 1", RangeMark,
             "2, then reattempt quiz.">>

\* the plan with a line for every topic of topic_stats
RECURSIVE Plan_everytopic(_, _)
Plan_everytopic(stats, i) ==
    IF i = 0 THEN <<>>
    ELSE Plan_everytopic(stats, i - 1) \o <<Suggestion(stats[i].topic)>>

WeakTopics == 3

\* weak = topic_stats[:3]; a line of the plan for every w of weak that is
\* not falsy (lines 113-117).  i counts the entries of weak taken.
RECURSIVE Plan(_, _)
Plan(stats, i) ==
    IF i = 0 THEN <<>>
    ELSE IF i > WeakTopics THEN Plan(stats, WeakTopics)
    ELSE IF Falsy(stats[i].topic) THEN Plan(stats, i - 1)
    ELSE Plan(stats, i - 1) \o <<Suggestion(stats[i].topic)>>

\* progress.get("users", {}).get(user, {"history": []}).get("history", [])
HistoryRead(file, user) ==
    LET progress == load_progress(file)
    IN  IF user \in DOMAIN progress THEN progress[user].history ELSE <<>>

compute_report(file, user) ==
    LET hist == HistoryRead(file, user)
        total == Len(hist)
        keys == TopicKeys(hist, total)
        stats == [k \in 1..Len(keys) |-> TopicStat(hist, keys[k])]
        topic_stats == SortByAccuracy(stats, Len(stats))
    IN  [total |-> total,
         accuracy |-> Accuracy(NumCorrect(hist), total),
         topic_stats |-> topic_stats,
         recommendations |-> Plan(topic_stats, Len(topic_stats))]

\* compute_report that leaves the user's (possibly new) entry in the file
ComputeReport_persist(user) ==
    /\ result' = Outcome("report", compute_report(doc, user))
    /\ prevResult' = result
    /\ call' = Call("report", user, <<>>, EmptyQ, FALSE)
    /\ doc' = Document("ok", SetDefault(load_progress(doc), user, [history |-> <<>>]))
    /\ prevDoc' = doc
    /\ UNCHANGED <<clock, procs, qsrc, saved>>
    /\ UNCHANGED <<selVars, evalVars, quizVars>>

ComputeReport(user) ==
    /\ result' = IF ProgressRaises(doc)
                 THEN Outcome("raised", NoReport)
                 ELSE Outcome("report", compute_report(doc, user))
    /\ prevResult' = result
    /\ call' = Call("report", user, <<>>, EmptyQ, FALSE)
    /\ prevDoc' = doc
    /\ UNCHANGED <<doc, clock, procs, qsrc, saved>>
    /\ UNCHANGED <<selVars, evalVars, quizVars>>

InitProgress ==
    /\ doc \in {Document("missing", NoUsers), Document("corrupt", NoUsers),
                Document("ok", NoUsers)}
    /\ prevDoc = doc
    /\ call = Call("init", "", <<>>, EmptyQ, FALSE)
    /\ clock = 0
    /\ ConcIdle
    /\ questions = <<>>
    /\ op = Op("init", <<>>, 0, FALSE)
    /\ ret = NoRet
    /\ SelIdle
    /\ EvalIdle
    /\ QuizIdle

\* record_event, with the way its write goes as an input; no write is
\* attempted when reading the document raises
RecordEvent(user, subject, qq, correct, write) ==
    /\ TotalEvents(load_progress(doc), DOMAIN load_progress(doc)) < MaxEvents
    /\ IF ProgressRaises(doc)
       THEN /\ doc' = doc
            /\ result' = Outcome("raised", NoReport)
            /\ saved' = "none"
       ELSE LET out == save_json(doc, record_event(doc, clock, user, subject, qq, correct),
                                 write)
            IN  /\ doc' = out.file
                /\ result' = Outcome(out.kind, NoReport)
                /\ saved' = write
    /\ prevDoc' = doc
    /\ call' = Call("record", user, subject, qq, correct)
    /\ prevResult' = result
    /\ UNCHANGED <<clock, procs, qsrc>>
    /\ UNCHANGED <<selVars, evalVars, quizVars>>

\* A second passes.
Tick ==
    /\ clock < MaxClock
    /\ clock' = clock + 1
    /\ UNCHANGED <<doc, prevDoc, call, result, prevResult, procs, qsrc, saved>>
    /\ UNCHANGED <<selVars, evalVars, quizVars>>

NextProgress ==
    \/ \E user \in Users, qq \in ProgQuestions, correct \in BOOLEAN :
          RecordEvent(user, <<"M", "a">>, qq, correct, "written")
    \/ \E user \in Users : ComputeReport(user)
    \/ Tick

SpecProgress == InitProgress /\ [][NextProgress]_vars

(***************************************************************************)
(* Properties of the progress store.                                       *)
(***************************************************************************)
\* The user's history as the store reads it (empty for an unknown user).
HistoryOf(file, user) ==
    IF file.state = "ok" /\ user \in DOMAIN file.users
    THEN file.users[user].history
    ELSE <<>>

IsPrefix(a, b) == Len(a) <= Len(b) /\ a = SubSeq(b, 1, Len(a))

\* C10: called one at a time, recordEvent(user, subject, q, correct) adds
\* exactly one event at the end of the user's history, carrying the subject,
\* the verdict, q's topic ("" when absent), q's difficulty as an integer (1
\* when absent) and q's id (null when absent); the events stored before are
\* all kept, unchanged and in order, in every user's history.
C10_AppendOnly ==
    /\ \A u \in Users : IsPrefix(HistoryOf(prevDoc, u), HistoryOf(doc, u))
    /\ call.name = "record" =>
          LET old == HistoryOf(prevDoc, call.user)
              new == HistoryOf(doc, call.user)
          IN  /\ Len(new) = Len(old) + 1
              /\ SubSeq(new, 1, Len(old)) = old
              /\ new[Len(new)].subject = call.subject
              /\ new[Len(new)].correct = call.correct
              /\ new[Len(new)].topic =
                    (IF call.q.topic.t = "absent" THEN Str(<<>>) ELSE call.q.topic)
              /\ new[Len(new)].difficulty =
                    (IF call.q.difficulty.t = "absent" THEN 1
                     ELSE IntOf(call.q.difficulty.s))
              /\ new[Len(new)].qid = call.q.id

\* A second event was appended to a history that already held one, for a
\* question without topic, difficulty and id.
C10_Witness ==
    /\ call.name = "record"
    /\ call.q = EmptyQ
    /\ Len(HistoryOf(prevDoc, call.user)) >= 1
    /\ Len(HistoryOf(doc, call.user)) = Len(HistoryOf(prevDoc, call.user)) + 1

(***************************************************************************)
(* Two sessions calling record_event on the same PROGRESS_FILE, with no    *)
(* lock: each call is a load_progress() and, later, a save_progress() of   *)
(* the document it read with its event appended.  A load and a save are    *)
(* each one step (the whole document is read, the whole document is        *)
(* written).                                                               *)
(***************************************************************************)
\* Documents a race may start from: no file, and a file with one event each
\* for ann and bob.
StoredDocs ==
    { Document("missing", NoUsers),
      Document("ok", [u \in Users |->
          [history |-> <<AttemptEvent(0, <<"M", "a">>, EmptyQ, u = "ann")>>]]) }

NumSaves == Cardinality({p \in Sessions : procs[p].pc = "done"})

InitConc ==
    /\ doc \in StoredDocs
    /\ prevDoc = doc
    /\ call = Call("init", "", <<>>, EmptyQ, FALSE)
    /\ clock = 0
    /\ ConcIdle
    /\ questions = <<>>
    /\ op = Op("init", <<>>, 0, FALSE)
    /\ ret = NoRet
    /\ SelIdle
    /\ EvalIdle
    /\ QuizIdle

\* record_event up to and including load_progress() (line 81)
Load(p, user, qq, correct) ==
    /\ procs[p].pc = "idle"
    /\ procs' = [procs EXCEPT ![p] =
                    [pc |-> "loaded", user |-> user, q |-> qq, correct |-> correct,
                     read |-> doc, ts |-> clock, savesSeen |-> NumSaves, order |-> 0]]
    /\ UNCHANGED <<doc, prevDoc, call, clock, result, prevResult, qsrc, saved>>
    /\ UNCHANGED <<selVars, evalVars, quizVars>>

\* a save that reads the document again and appends to what it finds
Save_reload(p) ==
    /\ procs[p].pc = "loaded"
    /\ doc' = record_event(doc, procs[p].ts, procs[p].user, <<"M", "a">>,
                           procs[p].q, procs[p].correct)
    /\ prevDoc' = doc
    /\ call' = Call("record", procs[p].user, <<"M", "a">>, procs[p].q, procs[p].correct)
    /\ result' = Outcome("unit", NoReport)
    /\ prevResult' = result
    /\ procs' = [procs EXCEPT ![p].pc = "done", ![p].order = NumSaves + 1]
    /\ saved' = "written"
    /\ UNCHANGED <<clock, qsrc>>
    /\ UNCHANGED <<selVars, evalVars, quizVars>>

\* the rest of record_event: append to the document read, save_progress()
\* (lines 82-92)
Save(p) ==
    /\ procs[p].pc = "loaded"
    /\ doc' = record_event(procs[p].read, procs[p].ts, procs[p].user, <<"M", "a">>,
                           procs[p].q, procs[p].correct)
    /\ prevDoc' = doc
    /\ call' = Call("record", procs[p].user, <<"M", "a">>, procs[p].q, procs[p].correct)
    /\ result' = Outcome("unit", NoReport)
    /\ prevResult' = result
    /\ procs' = [procs EXCEPT ![p].pc = "done", ![p].order = NumSaves + 1]
    /\ saved' = "written"
    /\ UNCHANGED <<clock, qsrc>>
    /\ UNCHANGED <<selVars, evalVars, quizVars>>

NextConc ==
    \/ \E p \in Sessions, user \in Users, qq \in ProgQuestions, correct \in BOOLEAN :
          Load(p, user, qq, correct)
    \/ \E p \in Sessions : Save(p)
    \/ Tick

SpecConc == InitConc /\ [][NextConc]_vars

\* Both calls are over, and each had loaded before either saved.
RaceOver ==
    /\ \A p \in Sessions : procs[p].pc = "done"
    /\ \A p \in Sessions : procs[p].savesSeen = 0

LastSaver == CHOOSE p \in Sessions : procs[p].order = Cardinality(Sessions)
FirstSaver == CHOOSE p \in Sessions : p # LastSaver

NumEvents(file) ==
    TotalEvents(load_progress(file), DOMAIN load_progress(file))

\* C11: when two recordEvent calls both load the document before either
\* saves it, both complete, and the document stored afterwards is the one
\* loaded plus the event of the call that saved last, and nothing else: the
\* other call's event is lost, for the same user and for different users.
C11_LastWriterWins ==
    RaceOver =>
        LET base == procs[LastSaver].read
            last == procs[LastSaver]
            first == procs[FirstSaver]
        IN  /\ result.kind = "unit"
            /\ NumEvents(doc) = NumEvents(base) + 1
            /\ HistoryOf(doc, last.user) =
                  Append(HistoryOf(base, last.user),
                         AttemptEvent(last.ts, <<"M", "a">>, last.q, last.correct))
            /\ \A u \in Users \ {last.user} : HistoryOf(doc, u) = HistoryOf(base, u)
            /\ first.user # last.user =>
                  HistoryOf(doc, first.user) = HistoryOf(base, first.user)
            /\ first.user = last.user =>
                  Len(HistoryOf(doc, last.user)) = Len(HistoryOf(base, last.user)) + 1

\* A race between calls for different users ended with the first saver's
\* event gone from a document that held events before.
C11_Witness ==
    /\ RaceOver
    /\ procs[FirstSaver].user # procs[LastSaver].user
    /\ NumEvents(procs[LastSaver].read) > 0
    /\ HistoryOf(doc, procs[FirstSaver].user)
          = HistoryOf(procs[FirstSaver].read, procs[FirstSaver].user)

(***************************************************************************)
(* Reports over stored histories: the document holds a history of up to    *)
(* MaxHist events for ann and none for bob, or is missing.                 *)
(***************************************************************************)
Algebra == <<"A", "l", "g", "e", "b", "r", "a">>

\* Topics of the recorded questions: none (recorded as ""), and three
\* labels.
ReportTopics == {Absent, Str(Algebra), Str(<<"b">>), Str(<<"c">>)}

TopicQ(topic) ==
    Question(Absent, Absent, topic, Absent, Absent, Absent, <<>>, Absent, <<>>)

ReportEvents ==
    {AttemptEvent(0, <<"M", "a">>, TopicQ(t), c) : t \in ReportTopics, c \in BOOLEAN}

Histories == UNION {[1..n -> ReportEvents] : n \in 0..MaxHist}

InitReport ==
    /\ doc \in {Document("missing", NoUsers)}
                \cup {Document("ok", [u \in {"ann"} |-> [history |-> h]]) : h \in Histories}
    /\ prevDoc = doc
    /\ call = Call("init", "", <<>>, EmptyQ, FALSE)
    /\ clock = 0
    /\ ConcIdle
    /\ questions = <<>>
    /\ op = Op("init", <<>>, 0, FALSE)
    /\ ret = NoRet
    /\ SelIdle
    /\ EvalIdle
    /\ QuizIdle

NextReport == \E user \in Users : ComputeReport(user)

SpecReport == InitReport /\ [][NextReport]_vars

\* The last call was compute_report(user), and hist is what the file holds
\* for that user.
Reported == call.name = "report" /\ result.kind = "report"
ReportedHist == HistoryOf(doc, call.user)

\* the percentage pct (in tenths) is num/den * 100 rounded to one decimal:
\* it is within 0.05 of the quotient
IsPercentage(pct, num, den) ==
    /\ 10 * den * pct - 10000 * num <= 5 * den
    /\ 10000 * num - 10 * den * pct <= 5 * den

\* C12: total is the number of events of the user's history; accuracy is
\* 100 * (events with correct = true) / total to one decimal when there
\* are events and 0.0 when there are none; for zero events the report is
\* total 0, accuracy 0.0, no topic_stats and no recommendations.
C12_TotalAndAccuracy ==
    Reported =>
        LET hist == ReportedHist
            right == {i \in 1..Len(hist) : hist[i].correct = TRUE}
        IN  /\ result.report.total = Len(hist)
            /\ Len(hist) > 0 =>
                  IsPercentage(result.report.accuracy, Cardinality(right), Len(hist))
            /\ Len(hist) = 0 =>
                  result.report = [total |-> 0, accuracy |-> 0,
                                   topic_stats |-> <<>>, recommendations |-> <<>>]

\* A report of three events, one of them correct: 33.3.
C12_Witness ==
    /\ Reported
    /\ Len(ReportedHist) = 3
    /\ result.report.total = 3
    /\ result.report.accuracy = 333

\* the events of hist whose topic is t
EventsOn(hist, t) == {i \in 1..Len(hist) : hist[i].topic = t}

RECURSIVE SumAttempts(_, _)
SumAttempts(stats, i) ==
    IF i = 0 THEN 0 ELSE stats[i].attempts + SumAttempts(stats, i - 1)

\* C13: topic_stats has exactly one entry for each topic that occurs in the
\* user's history and none for any other topic; an entry's attempts is the
\* number of events on its topic and its accuracy the percentage of them
\* that are correct, so the attempts sum to total.  One correct event on
\* Algebra alone gives exactly [{Algebra, 1, 100.0}].
C13_OneEntryPerTopic ==
    Reported =>
        LET hist == ReportedHist
            stats == result.report.topic_stats
        IN  /\ \A i \in 1..Len(hist) :
                  Cardinality({k \in 1..Len(stats) : stats[k].topic = hist[i].topic}) = 1
            /\ \A k \in 1..Len(stats) :
                  /\ EventsOn(hist, stats[k].topic) # {}
                  /\ stats[k].attempts = Cardinality(EventsOn(hist, stats[k].topic))
                  /\ IsPercentage(stats[k].accuracy,
                                  Cardinality({i \in EventsOn(hist, stats[k].topic) :
                                                  hist[i].correct = TRUE}),
                                  stats[k].attempts)
            /\ SumAttempts(stats, Len(stats)) = result.report.total
            /\ (Len(hist) = 1 /\ hist[1].topic = Str(Algebra) /\ hist[1].correct = TRUE) =>
                  stats = <<[topic |-> Str(Algebra), attempts |-> 1, accuracy |-> 1000]>>

\* A report of four events on two topics, three of them on Algebra.
C13_Witness ==
    /\ Reported
    /\ Len(ReportedHist) = 4
    /\ Len(result.report.topic_stats) = 2
    /\ \E k \in 1..2 :
          /\ result.report.topic_stats[k].topic = Str(Algebra)
          /\ result.report.topic_stats[k].attempts = 3

\* the place of the first event on topic t
FirstEventOn(hist, t) ==
    CHOOSE i \in EventsOn(hist, t) : \A j \in EventsOn(hist, t) : i <= j

\* C14: topic_stats is in non-decreasing order of accuracy, and topics of
\* equal accuracy are in the order in which they first occur in the history.
C14_SortedByAccuracy ==
    Reported =>
        LET hist == ReportedHist
            stats == result.report.topic_stats
        IN  \A j, k \in 1..Len(stats) :
                j < k =>
                    /\ stats[j].accuracy <= stats[k].accuracy
                    /\ stats[j].accuracy = stats[k].accuracy =>
                          FirstEventOn(hist, stats[j].topic)
                              < FirstEventOn(hist, stats[k].topic)

\* A report where the sort moved a later topic to the front and kept two
\* topics of equal accuracy in their order.
C14_Witness ==
    /\ Reported
    /\ LET hist == ReportedHist
           stats == result.report.topic_stats
       IN  /\ Len(stats) = 3
           /\ stats[1].accuracy < stats[2].accuracy
           /\ stats[2].accuracy = stats[3].accuracy
           /\ FirstEventOn(hist, stats[1].topic) > FirstEventOn(hist, stats[3].topic)

\* the entries of topic_stats a suggestion is made for: among the first
\* three, those with a label
Suggested(stats) == {k \in 1..Min(3, Len(stats)) : stats[k].topic.s # <<>>}

\* the j-th of them
NthSuggested(stats, j) ==
    CHOOSE k \in Suggested(stats) : Cardinality({n \in Suggested(stats) : n < k}) = j - 1

\* C15: recommendations has one suggestion for each of the first 3 entries
\* of topic_stats (the 3 lowest accuracies) whose label is not empty, in
\* that order, each naming its topic; so there are at most 3, none for an
\* empty label and none for a topic beyond the third entry.
C15_Recommendations ==
    Reported =>
        LET stats == result.report.topic_stats
            plan == result.report.recommendations
        IN  /\ Len(plan) <= 3
            /\ Len(plan) = Cardinality(Suggested(stats))
            /\ \A j \in 1..Len(plan) :
                  LET label == stats[NthSuggested(stats, j)].topic.s
                  IN  /\ label # <<>>
                      /\ Len(plan[j]) = Len(label) + 4
                      /\ plan[j][1] = "Revise basics of "
                      /\ SubSeq(plan[j], 2, Len(label) + 1) = label

\* A report over four topics where one of the three weakest has no label:
\* two suggestions, none for the fourth topic.
C15_Witness ==
    /\ Reported
    /\ Len(result.report.topic_stats) = 4
    /\ \E k \in 1..3 : result.report.topic_stats[k].topic.s = <<>>
    /\ Len(result.report.recommendations) = 2

\* C16: compute_report is purely derived: a call leaves the stored document
\* (every user's history) as it was, and a call that follows a call for the
\* same user, with no record_event in between, returns the same report.
C16_ReportIsPure ==
    /\ [](call.name = "report" => doc = prevDoc)
    /\ [][(call.name = "report" /\ call'.name = "report" /\ call'.user = call.user)
             => result' = result]_vars

\* Two reports in a row for ann, who has events; bob has none.
C16_Witness ==
    /\ call = Call("report", "ann", <<>>, EmptyQ, FALSE)
    /\ prevResult.kind = "report"
    /\ result = prevResult
    /\ result.report.total > 0
    /\ HistoryOf(doc, "bob") = <<>>

\* C19: the selector's difficulty is within [1, 5] in every reachable state,
\* the state the constructor leaves for any starting difficulty included;
\* without an argument it starts at 2.
C19_DifficultyAlwaysInRange ==
    /\ d \in MinDifficulty..MaxDifficulty
    /\ (nUpd = 0 /\ start = DefaultStart) => d = 2

\* C20: get_subjects returns the subject values of the loaded questions,
\* each exactly once, in ascending order, and nothing that is not the
\* subject of a question.
C20_SubjectsSortedDistinct ==
    op.name = "subjects" =>
        /\ \A i \in 1..Len(questions) :
              questions[i].subject.t # "absent" =>
                  Cardinality({k \in 1..Len(ret) : ret[k] = questions[i].subject.s}) = 1
        /\ \A k \in 1..Len(ret) :
              \E i \in 1..Len(questions) : questions[i].subject = Str(ret[k])
        /\ \A j, k \in 1..Len(ret) : j < k => StrLess(ret[j], ret[k])

\* The subjects of a bank with a question that has no subject and whose
\* first subject is not the least: three subjects of four questions.
C20_Witness ==
    /\ op.name = "subjects"
    /\ Len(ret) = 3
    /\ \E i \in 1..Len(questions) : questions[i].subject.t = "absent"
    /\ ret[1] # questions[1].subject.s

(***************************************************************************)
(* The persistent sources in any state, and writes that may fail: the      *)
(* question file is loaded and picked from, events are recorded and        *)
(* reports computed.                                                       *)
(***************************************************************************)
\* load_questions(): _load_json(QUESTION_FILE, [])
load_questions(file) == IF file.state = "ok" THEN file.questions ELSE <<>>

StoredBank ==
    << SQ("1", Str(<<"S","c">>), Absent),
       SQ("2", Str(<<"M","a">>), Str(<<"4">>)) >>

InitFaults ==
    /\ doc \in {Document(st, NoUsers) : st \in DocStates}
                \cup {Document("ok", [u \in {"bob"} |->
                        [history |-> <<AttemptEvent(0, <<"M", "a">>, EmptyQ, TRUE)>>]])}
    /\ qsrc \in {QuestionFile(st, <<>>) : st \in FileStates}
                \cup {QuestionFile("ok", StoredBank)}
    /\ prevDoc = doc
    /\ call = Call("init", "", <<>>, EmptyQ, FALSE)
    /\ clock = 0
    /\ result = Outcome("none", NoReport)
    /\ prevResult = Outcome("none", NoReport)
    /\ procs = [p \in Sessions |-> IdleProc]
    /\ saved = "none"
    /\ questions = <<>>
    /\ op = Op("init", <<>>, 0, FALSE)
    /\ ret = NoRet
    /\ SelIdle
    /\ EvalIdle
    /\ QuizIdle

LoadQuestions ==
    /\ IF LoadRaises(qsrc)
       THEN /\ result' = Outcome("raised", NoReport)
            /\ UNCHANGED questions
       ELSE /\ result' = Outcome("unit", NoReport)
            /\ questions' = load_questions(qsrc)
    /\ prevResult' = result
    /\ call' = Call("load", "", <<>>, EmptyQ, FALSE)
    /\ prevDoc' = doc
    /\ UNCHANGED <<doc, clock, procs, qsrc, saved>>
    /\ UNCHANGED <<d, start, prevD, runBase, runLen, runOk, nUpd, op, ret>>
    /\ UNCHANGED <<evalVars, quizVars>>

NextFaults ==
    \/ LoadQuestions
    \/ \E subject \in {<<"M", "a">>, <<"B">>} : Pick(subject)
    \/ \E correct \in BOOLEAN, write \in WriteOutcomes :
          RecordEvent("ann", <<"M", "a">>, EmptyQ, correct, write)
    \/ \E user \in Users : ComputeReport(user)

SpecFaults == InitFaults /\ [][NextFaults]_vars

\* a source that is missing or cannot be parsed
Unparsable(file) == file.state \in {"missing", "corrupt", "undecodable"}

\* C17: a missing or unparsable source is never an error.  Loading such a
\* question bank returns the empty sequence, so there are no subjects and
\* pick returns the empty sentinel; with such a progress document
\* compute_report returns the zero-event report for every user, and
\* record_event succeeds and leaves a document with exactly the new event.
C17_MissingOrCorruptIsNeverAnError ==
    /\ (call.name = "load" /\ Unparsable(qsrc)) =>
          /\ result.kind = "unit"
          /\ questions = <<>>
          /\ get_subjects(questions) = <<>>
    /\ (op.name = "pick" /\ Unparsable(qsrc)) => ret = EmptyQ
    /\ (call.name = "report" /\ Unparsable(prevDoc)) =>
          result = Outcome("report", NoReport)
    /\ (call.name = "record" /\ Unparsable(prevDoc) /\ saved \notin {"refused", "cut"}) =>
          /\ result.kind = "unit"
          /\ doc = Document("ok", [u \in {call.user} |->
                      [history |-> <<AttemptEvent(clock, call.subject, call.q,
                                                  call.correct)>>]])

\* C18: when the write of the progress document fails during record_event,
\* the call raises: it does not return as though the event had been saved.
C18_WriteFailureSurfaced ==
    (call.name = "record" /\ saved \in {"refused", "cut"}) => result.kind = "raised"

\* A record_event call whose write failed half-way: the call raised and the
\* file that held bob's event is left unparsable.
C18_Witness ==
    /\ call.name = "record"
    /\ saved = "cut"
    /\ result.kind = "raised"
    /\ HistoryOf(prevDoc, "bob") # <<>>
    /\ doc.state = "corrupt"

(***************************************************************************)
(* The JSON text of PROGRESS_FILE: the dict that load_progress returns and *)
(* save_progress writes has the key "users", under which the users are.    *)
(***************************************************************************)
\* _load_json(PROGRESS_FILE, {"users": {}}) as the dict it is
progress_dict(file) == [users |-> load_progress(file)]

\* C21: the persisted document is a mapping whose top-level keys are the
\* user names, each mapped to a record {history: events}, after every
\* record_event; an absent or empty file is read as the empty mapping.
C21_TopLevelKeysAreUsers ==
    /\ (call.name = "record" /\ result.kind = "unit") =>
          /\ DOMAIN progress_dict(doc) \subseteq Users
          /\ \A name \in DOMAIN progress_dict(doc) :
                DOMAIN progress_dict(doc)[name] = {"history"}
    /\ doc.state \in {"missing", "corrupt"} => DOMAIN progress_dict(doc) = {}

\* C23: record_event for one user leaves every other user's history in the
\* stored document as it was, and recording an event for another user
\* leaves a user's report as it was (calls made one after the other).
C23_OtherUsersUntouched ==
    /\ []((call.name = "record" /\ result.kind = "unit") =>
            \A u \in Users \ {call.user} : HistoryOf(doc, u) = HistoryOf(prevDoc, u))
    /\ [][\A u \in Users :
            (call'.name = "record" /\ call'.user # u) =>
                compute_report(doc', u) = compute_report(doc, u)]_vars

\* An event was recorded for bob while ann had a history, which is as it
\* was.
C23_Witness ==
    /\ call.name = "record"
    /\ call.user = "bob"
    /\ HistoryOf(prevDoc, "ann") # <<>>
    /\ HistoryOf(doc, "ann") = HistoryOf(prevDoc, "ann")
    /\ Len(HistoryOf(doc, "bob")) = Len(HistoryOf(prevDoc, "bob")) + 1

\* the labelled topics of a history
LabelledTopics(hist) ==
    {hist[i].topic.s : i \in {j \in 1..Len(hist) : hist[j].topic.s # <<>>}}

\* C24: when the user's history has events on at least 3 distinct topics
\* with a label, compute_report returns exactly 3 recommendations, also
\* when the history has events without a label.
C24_ThreeRecommendations ==
    (Reported /\ Cardinality(LabelledTopics(ReportedHist)) >= 3) =>
        Len(result.report.recommendations) = 3

\* C26: get_subjects never returns two values that are equal when compared
\* case-insensitively, so for a subject S it returns and any difficulty,
\* every question of filter_questions(questions, S, D) has exactly the
\* subject S.
C26_SubjectsGroupLikeFilter ==
    /\ op.name = "subjects" =>
          \A j, k \in 1..Len(ret) : j # k => ~SameIgnoringCase(ret[j], ret[k])
    /\ (op.name = "filter"
          /\ \E k \in 1..Len(get_subjects(questions)) :
                get_subjects(questions)[k] = op.subject) =>
          \A k \in 1..Len(ret) : ret[k].subject = Str(op.subject)

(***************************************************************************)
(* The quiz page of src/streamlit_app.py: one session, whose buttons are   *)
(* "Start / Next Question" and "Submit".  A click runs the script once;    *)
(* the widgets keep their values and the page keeps showing current_q      *)
(* until another question is picked.                                       *)
(***************************************************************************)
MaxSubmits == 4      \* graded submissions per behaviour

\* n, the "Number of questions" input at its minimum
QuizLength == 3

QuizUser == "ann"
QuizSubject == <<"M", "a">>

\* A bank whose questions have the keys the page reads; one option of the
\* third question is SUPERSCRIPT TWO.
QuizBank ==
    << Question(Str(<<"1">>), Str(QuizSubject), Str(<<"t">>), Num(<<"2">>),
                Str(TypeMcq), Str(<<"a">>), << <<"a">>, <<"b">> >>, Absent, <<>>),
       Question(Str(<<"2">>), Str(QuizSubject), Str(<<"u">>), Num(<<"3">>),
                Str(TypeText), Str(<<"a">>), <<>>, Absent, <<>>),
       Question(Str(<<"3">>), Str(QuizSubject), Str(<<"t">>), Num(<<"1">>),
                Str(TypeMcq), Str(<<"b">>), << <<"²">>, <<"b">> >>, Absent, <<>>) >>

QuizTexts == {<<>>, <<" ">>, <<"a">>, <<"b">>, <<" ", "a">>}

\* What the answer widget can hold: st.radio(opts, index=None) for mcq,
\* st.text_input otherwise (lines 37-43)
QuizInputs(qq) ==
    IF qq.type = Str(TypeMcq)
    THEN {Absent} \cup {Str(qq.options[i]) : i \in 1..Len(qq.options)}
    ELSE {Str(t) : t \in QuizTexts}

\* user_input is None or str(user_input).strip() == ""
Blank(input) == input = Absent \/ strip(PyStr(input)) = <<>>

\* An engine call made by a handler, and how it ended: "correct", "wrong",
\* "raised", or "none" for a call without verdict.
Step(name, verdict) == [name |-> name, verdict |-> verdict]
Verdict(ok) == IF ok THEN "correct" ELSE "wrong"

InitQuiz ==
    /\ questions \in {<<>>, QuizBank}
    /\ op = Op("init", <<>>, 0, FALSE)
    /\ ret = NoRet
    /\ SelIdle
    /\ EvalIdle
    /\ ProgIdle
    /\ QuizIdle

\* "Start / Next Question": new_question() (lines 26-30)
NewQuestion ==
    LET pool == filter_questions(questions, QuizSubject, d)
    IN  /\ IF pool = <<>>
           THEN current_q' = EmptyQ
           ELSE \E i \in 1..Len(pool) : current_q' = pool[i]
        /\ ret' = current_q'
        /\ prevD' = d
        /\ op' = Op("pick", QuizSubject, d, FALSE)
        /\ page' = Page("next", Absent)
        /\ answered' = FALSE
        /\ trace' = <<Step("pick", "none")>>
        /\ UNCHANGED <<questions, d, start, runBase, runLen, runOk, nUpd>>
        /\ UNCHANGED <<q_count, score>>
        /\ UNCHANGED <<evalVars, progVars>>

\* "Submit" (lines 45-63): a blank answer gets a warning only; otherwise
\* evaluate_answer, selector.update, record_event and the counters, in that
\* order, an exception ending the run of the script where it is raised.
Submit(input) ==
    /\ current_q # EmptyQ
    /\ NumEvents(doc) < MaxSubmits
    /\ page' = Page("submit", input)
    /\ UNCHANGED current_q
    /\ IF Blank(input)
       THEN /\ trace' = <<>>
            /\ UNCHANGED <<q_count, score, answered>>
            /\ UNCHANGED <<selVars, evalVars, progVars>>
       ELSE LET out == evaluate_answer(current_q, PyStr(input))
            IN  /\ q' = current_q
                /\ user_input' = PyStr(input)
                /\ res' = out
                /\ IF out.raised
                   THEN /\ trace' = <<Step("evaluate_answer", "raised")>>
                        /\ UNCHANGED <<q_count, score, answered>>
                        /\ UNCHANGED <<selVars, progVars>>
                   ELSE /\ trace' = <<Step("evaluate_answer", Verdict(out.ok)),
                                      Step("update", Verdict(out.ok)),
                                      Step("record_event", Verdict(out.ok))>>
                        /\ d' = update(d, out.ok)
                        /\ prevD' = d
                        /\ runBase' = IF runLen > 0 /\ runOk = out.ok THEN runBase ELSE d
                        /\ runLen' = IF runLen > 0 /\ runOk = out.ok THEN runLen + 1 ELSE 1
                        /\ runOk' = out.ok
                        /\ nUpd' = nUpd + 1
                        /\ op' = Op("update", <<>>, 0, out.ok)
                        /\ UNCHANGED <<questions, start, ret>>
                        /\ doc' = record_event(doc, clock, QuizUser, QuizSubject,
                                               current_q, out.ok)
                        /\ prevDoc' = doc
                        /\ call' = Call("record", QuizUser, QuizSubject, current_q, out.ok)
                        /\ result' = Outcome("unit", NoReport)
                        /\ prevResult' = result
                        /\ saved' = "written"
                        /\ UNCHANGED <<clock, procs, qsrc>>
                        /\ q_count' = IF q_count + 1 >= QuizLength THEN 0 ELSE q_count + 1
                        /\ score' = IF q_count + 1 >= QuizLength THEN 0
                                    ELSE score + (IF out.ok THEN 1 ELSE 0)
                        /\ answered' = TRUE

NextQuiz ==
    \/ NewQuestion
    \/ \E input \in QuizInputs(current_q) : Submit(input)

SpecQuiz == InitQuiz /\ [][NextQuiz]_vars

\* the three engine calls of a graded submission, with one verdict
GradedTrace(verdict) ==
    <<Step("evaluate_answer", verdict), Step("update", verdict),
      Step("record_event", verdict)>>

\* C22: in the quiz page a submission with a non-empty answer is graded,
\* then the selector is updated with that verdict, then one event with that
\* verdict is recorded, each once; a submission with an empty or
\* whitespace-only answer does none of the three and leaves the difficulty,
\* the session counters and the history as they were.
C22_GradeUpdateRecord ==
    [][page'.name = "submit" =>
          IF Blank(page'.input)
          THEN /\ trace' = <<>>
               /\ UNCHANGED <<d, q_count, score, doc>>
          ELSE \E ok \in BOOLEAN :
                  /\ trace' = GradedTrace(Verdict(ok))
                  /\ d' = update(d, ok)
                  /\ Len(HistoryOf(doc', QuizUser)) = Len(HistoryOf(doc, QuizUser)) + 1
                  /\ HistoryOf(doc', QuizUser)[Len(HistoryOf(doc', QuizUser))].correct = ok]_vars

\* C25: a question picked by "Start / Next Question" is graded at most once:
\* once an answer to it has been submitted, submitting again without
\* picking a new question leaves the difficulty, the score and the user's
\* history as they were.
C25_GradedAtMostOnce ==
    [][(answered /\ page'.name = "submit") =>
          /\ d' = d
          /\ score' = score
          /\ HistoryOf(doc', QuizUser) = HistoryOf(doc, QuizUser)]_vars

====
